---- MODULE Spec2Model ----
(***************************************************************************)
(* Model of the experimental gameplay systems of evoli:                    *)
(*   src/src/systems/experimental/topplegrass.rs                           *)
(*     TopplegrassSpawnSystem, TopplingSystem, GravitySystem               *)
(*   src/src/systems/experimental/wind_control.rs                          *)
(*     DebugWindControlSystem                                              *)
(*                                                                         *)
(* Numbers.  The code computes in f32; the model computes exactly, on a    *)
(* grid:                                                                   *)
(*   time       1 tick  = 1/Res second                                     *)
(*   velocity   1 unit  = 1/Res world units per second                     *)
(*   height     1 unit  = 1/(2*Res*Res) world unit                         *)
(*   angle      1 unit  = PI/8                                             *)
(* so that 4.0 * delta_seconds is 4 * delta velocity units, velocity *     *)
(* delta_seconds is 2 * velocity * delta height units and HEIGHT = 0.5 is  *)
(* Res * Res height units.                                                 *)
(* A horizontal coordinate is the pair [m, c] that stands for the real     *)
(* number m * sin(c * PI/8), c in -4..4, kept normal (m = 0 iff c = 0):    *)
(* the vectors of one magnitude in the sixteen directions k * PI/8 are     *)
(* exactly representable, and atan2, cos, sin and acos are tables on them. *)
(* f32 rounding is not modelled.                                           *)
(***************************************************************************)
EXTENDS Integers, Sequences, FiniteSets, TLC

\* ------------------------------------------------------------------ bounds
Res == 3
MaxDelta == 4
MaxFrameDelta == 2
MaxElapsed == 10
MaxEntities == 1
MaxMag == 4
MaxHalf == 2
MaxEvents == 2

\* ------------------------------------------------------- program constants
SPAWN_INTERVAL == 1 * Res
HEIGHT == Res * Res
GRAVITY == 4
FRAC_PI_8 == 1
FRAC_PI_4 == 2
LAUNCH_LOW == 4
LAUNCH_HIGH == 7
LAUNCH_DEN == 10

Deltas == 1..MaxDelta
FrameDeltas == 1..MaxFrameDelta
Ids == 0..MaxEntities
Mags == {0, MaxMag}
AxisDirs == {0, 4, 8, 12}

\* ------------------------------------------------------------- arithmetic
Abs(n) == IF n < 0 THEN -n ELSE n

\* floor of the square root
RECURSIVE SqrtFrom(_, _)
SqrtFrom(n, r) == IF (r + 1) * (r + 1) > n THEN r ELSE SqrtFrom(n, r + 1)

Isqrt(n) == SqrtFrom(n, 0)

\* sin(k * PI/8) as the index c of the value sin(c * PI/8), c in -4..4
Sin(k) ==
  LET j == k % 16
  IN  IF j <= 4 THEN j ELSE IF j <= 12 THEN 8 - j ELSE j - 16

Cos(k) == Sin(k + 4)

\* acos of the value sin(c * PI/8) = cos((4 - c) * PI/8), in 0..8
Acos(c) == 4 - c

Zero == [m |-> 0, c |-> 0]

\* magnitude * (trigonometric value of index c)
Scale(mag, c) == IF mag = 0 \/ c = 0 THEN Zero ELSE [m |-> mag, c |-> c]

Neg(a) == Scale(a.m, -a.c)

\* 4 * sin^2(c * PI/8) = a + b * sqrt(2), as <<a, b>>
SinSq4(c) ==
  LET k == Abs(c)
  IN  IF k = 0 THEN <<0, 0>>
      ELSE IF k = 1 THEN <<2, -1>>
      ELSE IF k = 2 THEN <<2, 0>>
      ELSE IF k = 3 THEN <<2, 1>>
      ELSE <<4, 0>>

\* 4 * a^2 = p + q * sqrt(2), as <<p, q>>
Sq4(a) == <<a.m * a.m * SinSq4(a.c)[1], a.m * a.m * SinSq4(a.c)[2]>>

\* Vector2::magnitude: sqrt(x^2 + y^2).  The irrational parts of the squares
\* cancel for the vectors of the grid.
Magnitude2(v) ==
  LET p == Sq4(v.x)[1] + Sq4(v.y)[1]
  IN  Isqrt(p \div 4)

\* Vector3::magnitude: sqrt(x^2 + y^2 + z^2)
Magnitude3(v) ==
  LET p == Sq4(v.x)[1] + Sq4(v.y)[1] + 4 * v.z * v.z
  IN  Isqrt(p \div 4)

\* y.atan2(x), in (-PI, PI]: -7..8.  atan2(0, 0) = 0.
Atan2(y, x) ==
  IF x.c >= 0 THEN y.c
  ELSE IF y.c >= 0 THEN 8 - y.c
  ELSE -8 - y.c

\* the vector of magnitude mag in direction d * PI/8
WindAt(mag, d) == [x |-> Scale(mag, Cos(d)), y |-> Scale(mag, Sin(d))]

\* ------------------------------------------------ DebugWindControlSystem
ActionPressed(name) == [kind |-> "ActionPressed", action |-> name]

InputEvents ==
  { ActionPressed("ChangeWindDirection"),
    ActionPressed("Other"),
    [kind |-> "KeyPressed", action |-> ""] }

\* a rotation that takes the arguments of atan2 in the wrong order
RotateWindSwapped(w) ==
  LET old_wind_angle == Atan2(w.x, w.y)
      new_wind_angle == old_wind_angle + FRAC_PI_8
      magnitude      == Magnitude2(w)
  IN  [ x |-> Scale(magnitude, Cos(new_wind_angle)),
        y |-> Scale(magnitude, Sin(new_wind_angle)) ]

\* handle_action for "ChangeWindDirection": polar form, angle + PI/8, back
RotateWind(w) ==
  LET old_wind_angle == Atan2(w.y, w.x)
      new_wind_angle == old_wind_angle + FRAC_PI_8
      magnitude      == Magnitude2(w)
  IN  [ x |-> Scale(magnitude, Cos(new_wind_angle)),
        y |-> Scale(magnitude, Sin(new_wind_angle)) ]

handle_action(action, w) ==
  IF action = "ChangeWindDirection" THEN RotateWind(w) ELSE w

\* the closure of run: only ActionPressed events reach handle_action
HandleEvent(event, w) ==
  IF event.kind = "ActionPressed" THEN handle_action(event.action, w) ELSE w

RECURSIVE HandleAll(_, _)
HandleAll(events, w) ==
  IF events = <<>> THEN w
  ELSE HandleAll(Tail(events), HandleEvent(Head(events), w))

RECURSIVE CountChange(_)
CountChange(events) ==
  IF events = <<>> THEN 0
  ELSE (IF Head(events) = ActionPressed("ChangeWindDirection") THEN 1 ELSE 0)
       + CountChange(Tail(events))

\* --------------------------------------------- TopplegrassSpawnSystem
\* rng.gen_range(low, high): a value of [low, high)
GenRange(low, high) == low..(high - 1)

\* the dot product of w and a unit vector along an axis
Dot(w, cardinal_direction) ==
  IF cardinal_direction = <<1, 0>> THEN w.x
  ELSE IF cardinal_direction = <<0, 1>> THEN w.y
  ELSE IF cardinal_direction = <<-1, 0>> THEN Neg(w.x)
  ELSE Neg(w.y)

\* Vector2::angle: 0 when a norm is 0, else acos(dot / (n1 * n2)), in 0..8
Angle(w, cardinal_direction) ==
  IF Magnitude2(w) = 0 THEN 0 ELSE Acos(Dot(w, cardinal_direction).c)

wind_towards_direction(w, cardinal_direction) ==
  Abs(Angle(w, cardinal_direction)) < FRAC_PI_4

\* the locations gen_spawn_location can return
gen_spawn_location(w, b) ==
  IF wind_towards_direction(w, <<1, 0>>)
  THEN {[x |-> b.left, y |-> yy, z |-> HEIGHT] : yy \in GenRange(b.bottom, b.top)}
  ELSE IF wind_towards_direction(w, <<0, 1>>)
  THEN {[x |-> xx, y |-> b.bottom, z |-> HEIGHT] : xx \in GenRange(b.left, b.right)}
  ELSE IF wind_towards_direction(w, <<-1, 0>>)
  THEN {[x |-> b.right, y |-> yy, z |-> HEIGHT] : yy \in GenRange(b.bottom, b.top)}
  ELSE {[x |-> xx, y |-> b.top, z |-> HEIGHT] : xx \in GenRange(b.left, b.right)}

\* a timer that fires while the time left is not negative
ready_to_spawn_inverted(secs, delta_seconds) ==
  LET left == secs - delta_seconds
  IN  IF left >= 0 THEN <<SPAWN_INTERVAL, TRUE>> ELSE <<left, FALSE>>

\* a timer that also fires when the time left is exactly zero
ready_to_spawn_at_zero(secs, delta_seconds) ==
  LET left == secs - delta_seconds
  IN  IF left <= 0 THEN <<SPAWN_INTERVAL, TRUE>> ELSE <<left, FALSE>>

\* ready_to_spawn: <<the new secs_to_next_spawn, the result>>
ready_to_spawn(secs, delta_seconds) ==
  LET left == secs - delta_seconds
  IN  IF left < 0 THEN <<SPAWN_INTERVAL, TRUE>> ELSE <<left, FALSE>>

VARIABLES
  wind,
  input_events,
  bounds,
  spawn_loc,
  secs_to_next_spawn,
  delta,
  ran,
  ent,
  panicked,
  mag0,
  dir0,
  rot,
  turned,
  elapsed,
  spawns,
  acc,
  gap,
  gapDelta,
  pre,
  lastRun

vars == <<wind, input_events, bounds, spawn_loc, secs_to_next_spawn, delta, ran,
          ent, panicked, mag0, dir0, rot, turned, elapsed, spawns, acc, gap, gapDelta, pre,
          lastRun>>

\* ------------------------------------------------------------- entities
\* status: "dead" (no such entity), "lazy" (created through LazyUpdate, its
\* components not yet inserted) or "alive".  An alive entity of the model has
\* Movement and Transform; topple and freefall are its TopplegrassTag and
\* FreeFallTag; vel is Movement.velocity, z is Transform.translation().z.
Dead ==
  [ status |-> "dead", topple |-> FALSE, freefall |-> FALSE,
    vel |-> [x |-> Zero, y |-> Zero, z |-> 0], z |-> 0 ]

\* the entity the spawn system builds: Transform at the spawn location,
\* Movement with velocity (wind.x, wind.y, 0.0); the "Topplegrass"
\* CreatureSpawnEvent makes it a topplegrass
Spawned(loc, w) ==
  [ status |-> "lazy", topple |-> TRUE, freefall |-> FALSE,
    vel |-> [x |-> w.x, y |-> w.y, z |-> 0], z |-> loc.z ]

\* another creature of the world: Movement and Transform, no tags
Creature ==
  [ status |-> "alive", topple |-> FALSE, freefall |-> FALSE,
    vel |-> [x |-> Scale(MaxMag, Cos(3)), y |-> Scale(MaxMag, Sin(3)), z |-> 0],
    z |-> HEIGHT ]

NoLoc == [x |-> 0, y |-> 0, z |-> -1]

IsAlive(e) == ent[e].status # "dead"

FreeSlots == {e \in Ids : ent[e].status = "dead"}

MinOf(S) == CHOOSE e \in S : \A o \in S : e <= o

\* ---------------------------------------------------------- TopplingSystem
\* the join (&entities, &mut movements, &topples, !&freefalls), without the
\* !&freefalls
TopplingJoinAnyFall ==
  {e \in Ids : ent[e].status = "alive" /\ ent[e].topple}

\* the join without the components: every entity slot that is not free-falling
TopplingJoinAnySlot ==
  {e \in Ids : ~ent[e].freefall}

\* the join (&entities, &mut movements, &topples, !&freefalls)
TopplingJoin ==
  {e \in Ids : ent[e].status = "alive" /\ ent[e].topple /\ ~ent[e].freefall}

VzMax == (LAUNCH_HIGH * MaxMag) \div LAUNCH_DEN

\* movement.velocity.magnitude() * rng.gen_range(0.4, 0.7): the values on the
\* grid of speed * r, 0.4 <= r < 0.7
LaunchVz(speed) ==
  { v \in 0..VzMax :
      /\ LAUNCH_LOW * speed <= LAUNCH_DEN * v
      /\ (LAUNCH_DEN * v < LAUNCH_HIGH * speed \/ (speed = 0 /\ v = 0)) }

\* the closure of filter_map for an entity the draw picks, then the insert
Launch(s, vz) ==
  [s EXCEPT !.vel.z = vz, !.freefall = (s.status # "dead")]

\* ---------------------------------------------------------- GravitySystem
\* the join without the &freefalls
GravityJoinAll ==
  {e \in Ids : ent[e].status = "alive"}

\* the join (&entities, &mut movements, &mut transforms, &freefalls)
GravityJoin ==
  {e \in Ids : ent[e].status = "alive" /\ ent[e].freefall}

\* a landing test that asks for a height strictly under HEIGHT
GravityStrict(s, dt) ==
  IF s.z < HEIGHT /\ s.vel.z < 0
  THEN [s EXCEPT !.z = HEIGHT, !.vel.z = 0, !.freefall = FALSE]
  ELSE [s EXCEPT !.vel.z = s.vel.z - GRAVITY * dt]

\* a landing that leaves the vertical velocity as it is
GravityKeepVz(s, dt) ==
  IF s.z <= HEIGHT /\ s.vel.z < 0
  THEN [s EXCEPT !.z = HEIGHT, !.freefall = FALSE]
  ELSE [s EXCEPT !.vel.z = s.vel.z - GRAVITY * dt]

\* a landing that leaves the FreeFallTag on the entity
GravityKeepTag(s, dt) ==
  IF s.z <= HEIGHT /\ s.vel.z < 0
  THEN [s EXCEPT !.z = HEIGHT, !.vel.z = 0]
  ELSE [s EXCEPT !.vel.z = s.vel.z - GRAVITY * dt]

\* the closure of filter_map and the removal of the tag that follows it
Gravity(s, dt) ==
  IF s.z <= HEIGHT /\ s.vel.z < 0
  THEN [s EXCEPT !.z = HEIGHT, !.vel.z = 0, !.freefall = FALSE]
  ELSE [s EXCEPT !.vel.z = s.vel.z - GRAVITY * dt]

\* the integration of the height: z += velocity.z * delta_seconds
Integrate(s, dt) == [s EXCEPT !.z = s.z + 2 * s.vel.z * dt]

\* ------------------------------------------------------------------ state
WorldBounds(w, h) == [left |-> -w, right |-> w, bottom |-> -h, top |-> h]

BoundsSet == {WorldBounds(MaxHalf, 1), WorldBounds(1, MaxHalf)}

InitEnt == [e \in Ids |-> IF e = 0 THEN Creature ELSE Dead]

InitCommon ==
  /\ mag0 \in Mags
  /\ wind = WindAt(mag0, dir0)
  /\ input_events = <<>>
  /\ spawn_loc = NoLoc
  /\ secs_to_next_spawn = 0
  /\ ran = {}
  /\ panicked = FALSE
  /\ rot = 0
  /\ turned = FALSE
  /\ elapsed = 0
  /\ spawns = 0
  /\ acc = 0
  /\ gap = 0
  /\ gapDelta = 0
  /\ pre = ent
  /\ lastRun = "init"

\* the world before the first frame: the timer is Default (0.0), no
\* topplegrass exists
InitWorld(FrameTimes) ==
  /\ dir0 = 1
  /\ bounds = WorldBounds(1, 1)
  /\ ent = InitEnt
  /\ delta \in FrameTimes
  /\ InitCommon

Init == InitWorld(FrameDeltas)

InitTimer == InitWorld(Deltas)

TimerVars == <<secs_to_next_spawn, elapsed, spawns, acc, gap, gapDelta>>
WindVars == <<wind, input_events, mag0, dir0, rot, turned>>

\* ---------------------------------------------------------------- actions
\* the dispatcher starts the next frame once every system of Systems has
\* run: Time gets the frame's delta, and the world's maintain inserts the
\* components of the entities created through LazyUpdate
NextFrame(Systems, FrameTimes) ==
  /\ ran = Systems
  /\ delta' \in FrameTimes
  /\ ran' = {}
  /\ ent' = [e \in Ids |->
               IF ent[e].status = "lazy" THEN [ent[e] EXCEPT !.status = "alive"]
               ELSE ent[e]]
  /\ pre' = ent'
  /\ lastRun' = "frame"
  /\ UNCHANGED <<bounds, spawn_loc, panicked, TimerVars, WindVars>>

\* TopplegrassSpawnSystem::run.  A spawn takes the lowest free entity slot;
\* the run waits while the timer would fire and no slot is free.
SpawnSystem ==
  /\ "spawn" \notin ran
  /\ LET r == ready_to_spawn(secs_to_next_spawn, delta)
     IN  /\ secs_to_next_spawn' = r[1]
         /\ IF r[2]
            THEN /\ FreeSlots # {}
                 /\ \E loc \in gen_spawn_location(wind, bounds) :
                      /\ spawn_loc' = loc
                      /\ ent' = [ent EXCEPT ![MinOf(FreeSlots)] = Spawned(loc, wind)]
            ELSE UNCHANGED <<spawn_loc, ent>>
  /\ ran' = ran \cup {"spawn"}
  /\ pre' = ent'
  /\ lastRun' = "spawn"
  /\ UNCHANGED <<bounds, delta, panicked, WindVars>>

\* the run, its history left alone
SpawnRun ==
  /\ SpawnSystem
  /\ UNCHANGED <<elapsed, spawns, acc, gap, gapDelta>>

\* the run, with the history of the timer: elapsed is the frame time the
\* system has seen, spawns the number of spawns issued, acc the frame time
\* since the last spawn, gap and gapDelta the value of acc and the delta at
\* the last spawn
SpawnRunTimed ==
  /\ elapsed + delta <= MaxElapsed
  /\ SpawnSystem
  /\ elapsed' = elapsed + delta
  /\ LET fired == ready_to_spawn(secs_to_next_spawn, delta)[2]
     IN  /\ spawns' = IF fired THEN spawns + 1 ELSE spawns
         /\ acc' = IF fired THEN 0 ELSE acc + delta
         /\ gap' = IF fired THEN acc + delta ELSE gap
         /\ gapDelta' = IF fired THEN delta ELSE gapDelta

\* TopplingSystem::run
TopplingRun ==
  /\ "toppling" \notin ran
  /\ \E free_falling \in SUBSET TopplingJoin :
       \E vz \in [free_falling -> 0..VzMax] :
         /\ \A e \in free_falling : vz[e] \in LaunchVz(Magnitude3(ent[e].vel))
         /\ ent' = [e \in Ids |->
                      IF e \in free_falling THEN Launch(ent[e], vz[e]) ELSE ent[e]]
         /\ panicked' = (panicked \/ \E e \in free_falling : ~IsAlive(e))
  /\ ran' = ran \cup {"toppling"}
  /\ pre' = ent
  /\ lastRun' = "toppling"
  /\ UNCHANGED <<bounds, spawn_loc, delta, TimerVars, WindVars>>

\* GravitySystem::run
GravityRun ==
  /\ "gravity" \notin ran
  /\ ent' = [e \in Ids |->
               IF e \in GravityJoin THEN Gravity(ent[e], delta) ELSE ent[e]]
  /\ ran' = ran \cup {"gravity"}
  /\ pre' = ent
  /\ lastRun' = "gravity"
  /\ UNCHANGED <<bounds, spawn_loc, delta, panicked, TimerVars, WindVars>>

\* the system that moves the entities, once a frame
MovementRun ==
  /\ "movement" \notin ran
  /\ ent' = [e \in Ids |->
               IF ent[e].status = "alive" THEN Integrate(ent[e], delta) ELSE ent[e]]
  /\ ran' = ran \cup {"movement"}
  /\ pre' = ent'
  /\ lastRun' = "movement"
  /\ UNCHANGED <<bounds, spawn_loc, delta, panicked, TimerVars, WindVars>>

\* a topplegrass is deleted between two runs
Despawn ==
  /\ \E e \in Ids :
       /\ ent[e].status = "alive"
       /\ ent[e].topple
       /\ ent' = [ent EXCEPT ![e] = Dead]
  /\ pre' = ent'
  /\ lastRun' = "despawn"
  /\ UNCHANGED <<bounds, spawn_loc, delta, ran, panicked, TimerVars, WindVars>>

AllSystems == {"spawn", "toppling", "gravity", "movement"}

Next ==
  \/ NextFrame(AllSystems, FrameDeltas)
  \/ SpawnRun
  \/ TopplingRun
  \/ GravityRun
  \/ MovementRun
  \/ Despawn

Spec == Init /\ [][Next]_vars

\* ------------------------------------------------ the timer, on its own
SpecTimerNext ==
  \/ NextFrame({"spawn"}, Deltas)
  \/ SpawnRunTimed
  \/ Despawn

SpecTimer == InitTimer /\ [][SpecTimerNext]_vars

\* ------------------------------------------------- the wind, on its own
\* an input event reaches the channel
PressInput ==
  /\ Len(input_events) < MaxEvents
  /\ \E event \in InputEvents : input_events' = Append(input_events, event)
  /\ pre' = ent
  /\ lastRun' = "input"
  /\ UNCHANGED <<wind, mag0, dir0, rot, turned, bounds, spawn_loc, delta, ran,
                 ent, panicked, TimerVars>>

\* DebugWindControlSystem::run: every event written since the last run is
\* read.  rot counts the ChangeWindDirection events handled, modulo 16, and
\* turned says that sixteen or more were handled.
WindControlRun ==
  /\ wind' = HandleAll(input_events, wind)
  /\ input_events' = <<>>
  /\ rot' = (rot + CountChange(input_events)) % 16
  /\ turned' = (turned \/ rot + CountChange(input_events) >= 16)
  /\ pre' = ent
  /\ lastRun' = "wind"
  /\ UNCHANGED <<mag0, dir0, bounds, spawn_loc, delta, ran, ent, panicked,
                 TimerVars>>

\* gen_spawn_location applied to the wind and the bounds of the world
SpawnLocation ==
  /\ spawn_loc' \in gen_spawn_location(wind, bounds)
  /\ pre' = ent
  /\ lastRun' = "location"
  /\ UNCHANGED <<delta, ran, ent, panicked, bounds, TimerVars, WindVars>>

\* the wind starts along an axis; the rotations reach the other directions
InitWind ==
  /\ dir0 \in AxisDirs
  /\ bounds \in BoundsSet
  /\ ent = InitEnt
  /\ delta = 1
  /\ InitCommon

SpecWindNext ==
  \/ PressInput
  \/ WindControlRun
  \/ SpawnLocation

SpecWind == InitWind /\ [][SpecWindNext]_vars

\* ------------------------------------------------ free fall, with fairness
\* the world after the first spawn: one topplegrass on the ground
InitLive ==
  /\ dir0 = 1
  /\ bounds = WorldBounds(1, 1)
  /\ mag0 \in Mags
  /\ \E loc \in gen_spawn_location(WindAt(mag0, dir0), bounds) :
       /\ spawn_loc = loc
       /\ ent = [e \in Ids |->
                   IF e = 0 THEN Creature
                   ELSE IF e = 1
                   THEN [Spawned(loc, WindAt(mag0, dir0)) EXCEPT !.status = "alive"]
                   ELSE Dead]
  /\ wind = WindAt(mag0, dir0)
  /\ input_events = <<>>
  /\ secs_to_next_spawn = SPAWN_INTERVAL
  /\ delta \in FrameDeltas
  /\ ran = {}
  /\ panicked = FALSE
  /\ rot = 0
  /\ turned = FALSE
  /\ elapsed = 0
  /\ spawns = 0
  /\ acc = 0
  /\ gap = 0
  /\ gapDelta = 0
  /\ pre = ent
  /\ lastRun = "init"

LiveSystems == {"toppling", "gravity", "movement"}

SpecLiveNext ==
  \/ NextFrame(LiveSystems, FrameDeltas)
  \/ TopplingRun
  \/ GravityRun
  \/ MovementRun

\* the dispatcher runs every system in every frame, and frames keep coming
SpecLive ==
  /\ InitLive
  /\ [][SpecLiveNext]_vars
  /\ WF_vars(NextFrame(LiveSystems, FrameDeltas))
  /\ WF_vars(TopplingRun)
  /\ WF_vars(GravityRun)
  /\ WF_vars(MovementRun)

\* ----------------------------------------------------------------- claims
\* the wind blows towards an axis: within PI/4 of it, the diagonals included
TowardsPlusX(w) == w.x.c > 0 /\ Abs(w.x.c) >= Abs(w.y.c)
TowardsPlusY(w) == w.y.c > 0 /\ Abs(w.y.c) >= Abs(w.x.c)
TowardsMinusX(w) == w.x.c < 0 /\ Abs(w.x.c) >= Abs(w.y.c)
TowardsMinusY(w) == w.y.c < 0 /\ Abs(w.y.c) >= Abs(w.x.c)

OnUpwindBorder(w, b, loc) ==
  /\ loc.z = HEIGHT
  /\ loc.x \in b.left..b.right
  /\ loc.y \in b.bottom..b.top
  /\ \/ Magnitude2(w) = 0
     \/ TowardsPlusX(w) /\ loc.x = b.left
     \/ TowardsPlusY(w) /\ loc.y = b.bottom
     \/ TowardsMinusX(w) /\ loc.x = b.right
     \/ TowardsMinusY(w) /\ loc.y = b.top

\* C1: the location gen_spawn_location returns lies on the border the wind
\* blows away from: x = left for a wind towards +x, y = bottom for +y,
\* x = right for -x, y = top for -y, the other coordinate inside the bounds and
\* z = HEIGHT, the diagonal winds included.
C1_SpawnUpwind ==
  lastRun = "location" => OnUpwindBorder(wind, bounds, spawn_loc)

\* C2: after a spawn, no frame passes with more than SPAWN_INTERVAL of frame
\* time accumulated and no spawn, and a spawn that follows another comes with
\* more than SPAWN_INTERVAL accumulated, and at most SPAWN_INTERVAL plus the
\* delta of its frame.
C2_SpawnPeriod ==
  /\ spawns >= 1 => acc <= SPAWN_INTERVAL
  /\ spawns >= 2 => (gap > SPAWN_INTERVAL /\ gap <= SPAWN_INTERVAL + gapDelta)

C2_Witness ==
  /\ lastRun = "spawn"
  /\ spawns >= 2
  /\ acc = 0
  /\ gap = SPAWN_INTERVAL + gapDelta

\* C3 as stated: the number of spawns is at least floor(T / SPAWN_INTERVAL),
\* T the frame time elapsed.
C3_NoDrift == spawns >= elapsed \div SPAWN_INTERVAL

\* C3, amended: the number of spawns is at least T / (SPAWN_INTERVAL + D), D
\* the largest delta of a frame.
C3_BoundedDrift == spawns * (SPAWN_INTERVAL + MaxDelta) >= elapsed

C3_Witness ==
  /\ lastRun = "spawn"
  /\ spawns >= 2
  /\ spawns < elapsed \div SPAWN_INTERVAL

\* C4: after n ChangeWindDirection events the wind is the initial wind
\* rotated counter-clockwise by n * PI/8, its magnitude the initial one; the
\* other events change nothing.
C4_RotatesByPi8 ==
  /\ wind = WindAt(mag0, dir0 + rot)
  /\ Magnitude2(wind) = mag0

C4_Witness ==
  /\ lastRun = "wind"
  /\ turned
  /\ rot = 0
  /\ mag0 > 0
  /\ wind = WindAt(mag0, dir0)

\* C5: a run of GravitySystem lands every entity that entered it with the
\* FreeFallTag, z <= HEIGHT and a negative velocity.z (z = HEIGHT, velocity.z
\* = 0, no tag), and leaves the tag on every other tagged entity.
C5_GravityLands ==
  lastRun = "gravity" =>
    \A e \in Ids :
      (pre[e].status = "alive" /\ pre[e].freefall) =>
        IF pre[e].z <= HEIGHT /\ pre[e].vel.z < 0
        THEN ent[e].z = HEIGHT /\ ent[e].vel.z = 0 /\ ~ent[e].freefall
        ELSE ent[e].freefall

C5_Witness ==
  /\ lastRun = "gravity"
  /\ \E e \in Ids :
       /\ pre[e].freefall /\ pre[e].z = HEIGHT /\ pre[e].vel.z < 0
       /\ ~ent[e].freefall

\* C6: a run of GravitySystem takes 4 * delta_seconds off the velocity.z of
\* every tagged entity it does not land and changes nothing else of it, and
\* changes nothing of an entity without the FreeFallTag.
C6_GravityFrame ==
  lastRun = "gravity" =>
    \A e \in Ids :
      IF pre[e].status = "alive" /\ pre[e].freefall
      THEN ent[e].freefall =>
             ent[e] = [pre[e] EXCEPT !.vel.z = pre[e].vel.z - GRAVITY * delta]
      ELSE ent[e] = pre[e]

C6_Witness ==
  /\ lastRun = "gravity"
  /\ \E e \in Ids :
       /\ pre[e].freefall /\ ent[e].freefall
       /\ pre[e].vel.x # Zero
       /\ ent[e].vel.z < 0
  /\ \E e \in Ids : pre[e].status = "alive" /\ ~pre[e].freefall

\* C7: a run of TopplingSystem changes only entities that entered it alive,
\* with the TopplegrassTag and without the FreeFallTag, and on the ground;
\* each one it changes has the FreeFallTag after the run and a velocity.z
\* from 0.4 to 0.7 times its speed, the rest of it as before.
C7_LaunchOnlyGrounded ==
  lastRun = "toppling" =>
    \A e \in Ids :
      IF /\ pre[e].status = "alive" /\ pre[e].topple /\ ~pre[e].freefall
         /\ pre[e].z = HEIGHT
      THEN \/ ent[e] = pre[e]
           \/ /\ ent[e].freefall
              /\ ent[e] = [pre[e] EXCEPT !.vel.z = ent[e].vel.z, !.freefall = TRUE]
              /\ ent[e].vel.z >= 0
              /\ LAUNCH_LOW * Magnitude3(pre[e].vel) <= LAUNCH_DEN * ent[e].vel.z
              /\ LAUNCH_DEN * ent[e].vel.z <= LAUNCH_HIGH * Magnitude3(pre[e].vel)
      ELSE ent[e] = pre[e]

C7_Witness ==
  /\ lastRun = "toppling"
  /\ \E e \in Ids :
       /\ ~pre[e].freefall /\ ent[e].freefall /\ ent[e].vel.z > 0
  /\ \E e \in Ids : pre[e].status = "alive" /\ ~pre[e].topple

C9_GroundedNoVz ==
  \A e \in Ids :
    (ent[e].status # "dead" /\ ent[e].topple /\ ~ent[e].freefall) =>
      /\ ent[e].vel.z = 0
      /\ Magnitude3(ent[e].vel) = Magnitude2(ent[e].vel)

C9_Witness ==
  /\ lastRun = "gravity"
  /\ \E e \in Ids :
       /\ pre[e].freefall /\ pre[e].vel.z < 0 /\ pre[e].topple
       /\ ~ent[e].freefall /\ ent[e].vel.x # Zero

\* C10: every entity that has the FreeFallTag loses it again, and is then at
\* z = HEIGHT with velocity.z = 0.
C10_FreeFallEnds ==
  \A e \in Ids :
    ent[e].freefall ~>
      (~ent[e].freefall /\ ent[e].z = HEIGHT /\ ent[e].vel.z = 0)

C10_Witness ==
  /\ lastRun = "gravity"
  /\ mag0 = 0
  /\ \E e \in Ids : pre[e].freefall /\ ~ent[e].freefall

====
